---- MODULE Spec2Model ----
(***************************************************************************)
(* Model of COVID-19_Global_Data_Tracker.ipynb (src/index.py): one linear  *)
(* run of the notebook over one in-memory table.  Each action is one       *)
(* statement group of the notebook, in program order; an uncaught Python   *)
(* exception moves the run to "halted".                                    *)
(*                                                                         *)
(* Floating-point values are modelled as exact non-negative rationals      *)
(* extended with NaN and +inf (rounding is not modelled; the input files   *)
(* hold no negative number).  The charting calls are an external sink and  *)
(* are modelled as never raising, except px.choropleth, whose exception    *)
(* the notebook catches itself.  The input file follows the data model of  *)
(* the dataset: one row per (location, date).                              *)
(***************************************************************************)
EXTENDS Integers, Sequences, FiniteSets, TLC

VARIABLES
    fileExists,         \* whether data/owid-covid-data.csv is present
    defined,            \* the names the notebook has bound so far
    rawFile,            \* the rows of the CSV file, in file order
    pc,                 \* the statement group the run executes next
    ran,                \* the statement groups the run has started
    error,              \* the uncaught exception that ended the run, if any
    out,                \* the messages printed so far
    df,                 \* the working table
    latest_data,        \* the latest snapshot (line 130)
    rolling,            \* the 7-row rolling means plotted per country
    latest_date,        \* line 205
    total_cases_world,  \* line 206
    total_deaths_world, \* line 207
    most_vaccinated,    \* line 214
    highest_fatality,   \* line 218
    first_cases,        \* line 222
    days_reporting,     \* the days printed by the loop of lines 223-225
    cleaned_csv,        \* data/covid_cleaned_data.csv
    snapshot_csv        \* data/covid_latest_snapshot.csv

vars == <<fileExists, defined, rawFile, pc, ran, error, out, df, latest_data, rolling,
          latest_date, total_cases_world, total_deaths_world, most_vaccinated,
          highest_fatality, first_cases, days_reporting, cleaned_csv,
          snapshot_csv>>

(***************************************************************************)
(* Bounds of the model.                                                    *)
(***************************************************************************)
MaxRows == 2
RollRows == 7

(***************************************************************************)
(* Floating-point values.                                                  *)
(***************************************************************************)
RECURSIVE GCD(_, _)
GCD(a, b) == IF b = 0 THEN a ELSE GCD(b, a % b)

NaN == [t |-> "nan", n |-> 0, d |-> 1]
Inf == [t |-> "inf", n |-> 1, d |-> 1]
Num(n, d) == LET g == GCD(n, d) IN [t |-> "num", n |-> n \div g, d |-> d \div g]
Whole(n) == [t |-> "num", n |-> n, d |-> 1]

IsNaN(x) == x.t = "nan"
IsZero(x) == x.t = "num" /\ x.n = 0

\* a / b on floats (numpy semantics: 0/0 is NaN, x/0 is inf for x > 0)
Div(a, b) ==
    IF IsNaN(a) \/ IsNaN(b) THEN NaN
    ELSE IF a.t = "inf" THEN (IF b.t = "inf" THEN NaN ELSE Inf)
    ELSE IF b.t = "inf" THEN Whole(0)
    ELSE IF b.n = 0 THEN (IF a.n = 0 THEN NaN ELSE Inf)
    ELSE Num(a.n * b.d, a.d * b.n)

\* a * b on floats
Mul(a, b) ==
    IF IsNaN(a) \/ IsNaN(b) THEN NaN
    ELSE IF a.t = "inf" \/ b.t = "inf"
         THEN (IF IsZero(a) \/ IsZero(b) THEN NaN ELSE Inf)
    ELSE Num(a.n * b.n, a.d * b.d)

\* a + b on floats
Add(a, b) ==
    IF IsNaN(a) \/ IsNaN(b) THEN NaN
    ELSE IF a.t = "inf" \/ b.t = "inf" THEN Inf
    ELSE Num(a.n * b.d + b.n * a.d, a.d * b.d)

\* a > b on floats (every comparison with NaN is False)
Gt(a, b) ==
    /\ ~IsNaN(a)
    /\ ~IsNaN(b)
    /\ a.t = "inf" => b.t = "num"
    /\ a.t = "num" => (b.t = "num" /\ a.n * b.d > b.n * a.d)

(***************************************************************************)
(* Dates.  The file holds a date as text, year-month-day; pd.to_datetime   *)
(* turns it into a timestamp, modelled as the day's proleptic Gregorian    *)
(* ordinal, so that comparison, max() and subtraction in days are those of *)
(* integers.                                                               *)
(***************************************************************************)
IsLeap(y) == (y % 4 = 0 /\ y % 100 # 0) \/ y % 400 = 0

DaysInMonth(y, m) ==
    IF m = 2 THEN (IF IsLeap(y) THEN 29 ELSE 28)
    ELSE IF m \in {4, 6, 9, 11} THEN 30 ELSE 31

RECURSIVE DaysBeforeMonth(_, _)
DaysBeforeMonth(y, m) ==
    IF m = 1 THEN 0 ELSE DaysBeforeMonth(y, m - 1) + DaysInMonth(y, m - 1)

DaysBeforeYear(y) ==
    (y - 1) * 365 + ((y - 1) \div 4) - ((y - 1) \div 100) + ((y - 1) \div 400)

to_datetime(text) == DaysBeforeYear(text[1]) + DaysBeforeMonth(text[1], text[2]) + text[3]

(***************************************************************************)
(* Configuration of the notebook.                                          *)
(***************************************************************************)
countries_to_include ==
    <<"United States", "India", "Brazil", "United Kingdom", "Germany", "Kenya",
      "South Africa">>

columns_to_keep ==
    <<"date", "location", "total_cases", "new_cases", "total_deaths", "new_deaths",
      "total_vaccinations", "people_vaccinated", "people_fully_vaccinated",
      "population", "population_density", "median_age", "gdp_per_capita">>

Hundred == 100
Window == 7
Million == 1000000
Thousand == 1000

Range(s) == {s[i] : i \in 1..Len(s)}

(***************************************************************************)
(* The input file.  Its header is that of the OWID dataset (the columns    *)
(* the notebook reads and two it drops); its rows are drawn from a few     *)
(* locations, dates and value profiles.                                    *)
(***************************************************************************)
RawColumns ==
    <<"iso_code", "continent", "location", "date", "total_cases", "new_cases",
      "total_deaths", "new_deaths", "total_vaccinations", "people_vaccinated",
      "people_fully_vaccinated", "population", "population_density", "median_age",
      "gdp_per_capita">>

NumericColumns ==
    {"total_cases", "new_cases", "total_deaths", "new_deaths", "total_vaccinations",
     "people_vaccinated", "people_fully_vaccinated", "population",
     "population_density", "median_age", "gdp_per_capita"}

\* locations of the input: two of the whitelist and a continent aggregate
Locations == {"India", "Kenya", "Asia"}

\* Python's ordering of the location names (sort_values on a string column)
Alphabetical ==
    <<"Asia", "Brazil", "Germany", "India", "Kenya", "South Africa",
      "United Kingdom", "United States">>

LocationRank(loc) == CHOOSE i \in 1..Len(Alphabetical) : Alphabetical[i] = loc

Dates == {<<2020, 2, 28>>, <<2020, 3, 1>>, <<2020, 4, 10>>}

Profile(tc, nc, td, nd, tv, pv, pfv, pop, rest) ==
    [total_cases |-> tc, new_cases |-> nc, total_deaths |-> td, new_deaths |-> nd,
     total_vaccinations |-> tv, people_vaccinated |-> pv,
     people_fully_vaccinated |-> pfv, population |-> pop,
     population_density |-> rest, median_age |-> rest, gdp_per_capita |-> rest]

AllUnknown == Profile(NaN, NaN, NaN, NaN, NaN, NaN, NaN, NaN, NaN)

Profiles ==
    { AllUnknown,
      Profile(Whole(0), Whole(0), Whole(0), Whole(0), NaN, Whole(250), NaN, NaN, Whole(30)),
      Profile(Whole(100), Whole(5), Whole(2), Whole(1), Whole(300), Whole(250), Whole(50),
              Whole(1000), Whole(30)),
      Profile(Whole(200), NaN, Whole(2), NaN, Whole(600), Whole(500), Whole(100),
              Whole(1000), NaN),
      Profile(Whole(0), Whole(0), Whole(2), Whole(2), Whole(300), Whole(250), NaN,
              Whole(1000), Whole(30)) }

\* the rows of a location the notebook drops all look alike to it
ProfilesOf(location) ==
    IF location \in Range(countries_to_include) THEN Profiles ELSE {AllUnknown}

RawRow(location, date, p) ==
    [iso_code |-> location, continent |-> "-", location |-> location, date |-> date] @@ p

Injective(f) == \A i, j \in DOMAIN f : f[i] = f[j] => i = j

\* the files of at most MaxRows rows with one row per (location, date)
IsFile(file) ==
    \E n \in 0..MaxRows :
        \E keys \in [1..n -> Locations \X Dates] :
            /\ Injective(keys)
            /\ \E ps \in [1..n -> Profiles] :
                   /\ \A i \in 1..n : ps[i] \in ProfilesOf(keys[i][1])
                   /\ file = [i \in 1..n |-> RawRow(keys[i][1], keys[i][2], ps[i])]

\* A longer history of one country, RollRows reporting days across a month's
\* end (1 February is not reported), for the rolling window: the days in date
\* order, rotated and possibly reversed, with one row of a second country at any
\* place or absent.
RollDate(k) == IF k <= 3 THEN <<2021, 1, 28 + k>> ELSE <<2021, 2, k - 2>>

RollRow(k) ==
    RawRow("India", RollDate(k),
           Profile(Whole(10 * k), IF k = 2 THEN NaN ELSE Whole(k * k), Whole(k), Whole(1),
                   NaN, Whole(k), NaN, Whole(1000), NaN))

OtherRow == RawRow("Germany", RollDate(2),
                   Profile(Whole(7), Whole(7), Whole(0), Whole(0), NaN, NaN, NaN, NaN, NaN))

InsertAt(s, p, x) == SubSeq(s, 1, p) \o <<x>> \o SubSeq(s, p + 1, Len(s))

IsRollFile(file) ==
    \E shift \in 0..(RollRows - 1), reversed \in BOOLEAN :
        LET turned == [i \in 1..RollRows |->
                          LET k == ((i - 1 + shift) % RollRows) + 1
                          IN RollRow(IF reversed THEN RollRows + 1 - k ELSE k)]
        IN \/ file = turned
           \/ \E p \in 0..RollRows : file = InsertAt(turned, p, OtherRow)

(***************************************************************************)
(* The table operations of pandas the notebook uses.  A table is a record  *)
(* of its column names, in order, and its rows, in order; a row is its     *)
(* index label (read_csv numbers the rows of the file from 0) and its      *)
(* cells by column name.                                                   *)
(***************************************************************************)
read_csv(file) ==
    [columns |-> RawColumns,
     rows |-> [i \in 1..Len(file) |-> [idx |-> i - 1, cells |-> file[i]]]]

\* df[col]: the column as a series, in row order
Column(t, col) == [i \in 1..Len(t.rows) |-> t.rows[i].cells[col]]

\* df[col] = series; a new column is appended to the header
Assign(t, col, series) ==
    [columns |-> IF col \in Range(t.columns) THEN t.columns ELSE Append(t.columns, col),
     rows |-> [i \in 1..Len(t.rows) |->
                  [idx |-> t.rows[i].idx,
                   cells |-> [c \in (DOMAIN t.rows[i].cells) \cup {col} |->
                                 IF c = col THEN series[i] ELSE t.rows[i].cells[c]]]]]

RECURSIVE Masked(_, _, _)
Masked(rows, mask, k) ==
    IF k = 0 THEN <<>>
    ELSE IF mask[k] THEN Append(Masked(rows, mask, k - 1), rows[k])
    ELSE Masked(rows, mask, k - 1)

\* df[mask]: the rows the boolean series marks, in order
Where(t, mask) == [columns |-> t.columns, rows |-> Masked(t.rows, mask, Len(t.rows))]

\* a membership test that marks every row
isin_everything(series, values) == [i \in DOMAIN series |-> TRUE]

\* series.isin(values)
isin(series, values) == [i \in DOMAIN series |-> series[i] \in Range(values)]

\* df[columns_to_keep]
Select(t, cols) ==
    [columns |-> cols,
     rows |-> [i \in 1..Len(t.rows) |->
                  [idx |-> t.rows[i].idx,
                   cells |-> [c \in Range(cols) |-> t.rows[i].cells[c]]]]]

\* a fill that leaves the series as it is
fillna_nothing(series) == series

\* series.fillna(0)
fillna(series) == [i \in DOMAIN series |-> IF IsNaN(series[i]) THEN Whole(0) ELSE series[i]]

\* (df['total_deaths'] / df['total_cases']) * 100
case_fatality_rate(t) ==
    [i \in 1..Len(t.rows) |->
        Mul(Div(Column(t, "total_deaths")[i], Column(t, "total_cases")[i]), Whole(Hundred))]

\* (df['people_vaccinated'] / df['population']) * 100
vaccination_rate(t) ==
    [i \in 1..Len(t.rows) |->
        Mul(Div(Column(t, "people_vaccinated")[i], Column(t, "population")[i]),
            Whole(Hundred))]

\* the order of sort_values(['date', 'location'])
Before_date_first(r, s) ==
    \/ r.cells.date < s.cells.date
    \/ /\ r.cells.date = s.cells.date
       /\ LocationRank(r.cells.location) < LocationRank(s.cells.location)

\* the order of sort_values(['location', 'date'])
Before(r, s) ==
    \/ LocationRank(r.cells.location) < LocationRank(s.cells.location)
    \/ /\ r.cells.location = s.cells.location
       /\ r.cells.date < s.cells.date

RECURSIVE Insert(_, _)
Insert(sorted, r) ==
    IF sorted = <<>> THEN <<r>>
    ELSE IF Before(r, sorted[Len(sorted)])
         THEN Append(Insert(SubSeq(sorted, 1, Len(sorted) - 1), r), sorted[Len(sorted)])
         ELSE Append(sorted, r)

RECURSIVE SortRows(_)
SortRows(rows) ==
    IF rows = <<>> THEN <<>>
    ELSE Insert(SortRows(SubSeq(rows, 1, Len(rows) - 1)), rows[Len(rows)])

sort_values(t) == [columns |-> t.columns, rows |-> SortRows(t.rows)]

\* df['date'].max(): NaT on an empty column
NaT == 0

DateMax(t) ==
    IF t.rows = <<>> THEN NaT
    ELSE CHOOSE d \in {t.rows[i].cells.date : i \in 1..Len(t.rows)} :
             \A i \in 1..Len(t.rows) : t.rows[i].cells.date <= d

\* each country's own latest row
LatestPerCountry(t) ==
    Where(t, [i \in 1..Len(t.rows) |->
                 \A j \in 1..Len(t.rows) :
                     t.rows[j].cells.location = t.rows[i].cells.location
                         => t.rows[j].cells.date <= t.rows[i].cells.date])

\* df[df['date'] == df['date'].max()]
LatestRows(t) == Where(t, [i \in 1..Len(t.rows) |-> Column(t, "date")[i] = DateMax(t)])

\* df['location'].unique()
UniqueLocations(t) == {t.rows[i].cells.location : i \in 1..Len(t.rows)}

\* df[df['location'] == country]
CountryData(t, country) ==
    Where(t, [i \in 1..Len(t.rows) |-> Column(t, "location")[i] = country])

RECURSIVE SumSeq(_, _, _)
SumSeq(rows, col, k) ==
    IF k = 0 THEN Whole(0) ELSE Add(SumSeq(rows, col, k - 1), rows[k].cells[col])

\* country_data[col].rolling(Window).mean(): NaN until the window is full
RollingMean(rows, col) ==
    [i \in 1..Len(rows) |->
        IF i < Window THEN NaN
        ELSE Div(SumSeq(SubSeq(rows, i - Window + 1, i), col, Window), Whole(Window))]

\* Series.max() of a column (NaN skipped; NaN when nothing is left)
ColumnMax(rows, col) ==
    LET vals == {rows[i].cells[col] : i \in 1..Len(rows)} \ {NaN}
    IN IF vals = {} THEN NaN
       ELSE CHOOSE v \in vals : \A w \in vals : ~Gt(w, v)

\* the sum of the per-country maxima of a column over the countries in S
RECURSIVE SumOfMax(_, _, _)
SumOfMax(t, col, S) ==
    IF S = {} THEN Whole(0)
    ELSE LET c == CHOOSE y \in S : TRUE
         IN Add(ColumnMax(CountryData(t, c).rows, col), SumOfMax(t, col, S \ {c}))

\* df.groupby('location')[col].max().sum()
GroupMaxSum(t, col) == SumOfMax(t, col, UniqueLocations(t))

\* the positions idxmax chooses among: NaN is skipped
Valid(rows, col) == {i \in 1..Len(rows) : ~IsNaN(rows[i].cells[col])}

\* Series.idxmax(): the label of the first row holding the greatest value
idxmax(rows, col) ==
    LET best == CHOOSE i \in Valid(rows, col) :
                    \A j \in Valid(rows, col) :
                        /\ ~Gt(rows[j].cells[col], rows[i].cells[col])
                        /\ rows[j].cells[col] = rows[i].cells[col] => i <= j
    IN rows[best].idx

\* latest_data.loc[label]
loc(rows, label) == rows[CHOOSE i \in 1..Len(rows) : rows[i].idx = label]

\* df[df['total_cases'] >= 0].groupby('location')['date'].min()
FirstCases_from_zero(t) ==
    LET pos == Where(t, [i \in 1..Len(t.rows) |-> ~IsNaN(Column(t, "total_cases")[i])])
    IN [c \in UniqueLocations(pos) |->
           CHOOSE d \in {pos.rows[i].cells.date : i \in 1..Len(pos.rows)} :
               /\ \E i \in 1..Len(pos.rows) :
                      pos.rows[i].cells.location = c /\ pos.rows[i].cells.date = d
               /\ \A i \in 1..Len(pos.rows) :
                      pos.rows[i].cells.location = c => d <= pos.rows[i].cells.date]

\* df[df['total_cases'] > 0].groupby('location')['date'].min()
FirstCases(t) ==
    LET pos == Where(t, [i \in 1..Len(t.rows) |->
                            Gt(Column(t, "total_cases")[i], Whole(0))])
    IN [c \in UniqueLocations(pos) |->
           CHOOSE d \in {pos.rows[i].cells.date : i \in 1..Len(pos.rows)} :
               /\ \E i \in 1..Len(pos.rows) :
                      pos.rows[i].cells.location = c /\ pos.rows[i].cells.date = d
               /\ \A i \in 1..Len(pos.rows) :
                      pos.rows[i].cells.location = c => d <= pos.rows[i].cells.date]

\* (latest_date - date).days for every item of first_cases
DaysSince(latest, firsts) == [c \in DOMAIN firsts |-> latest - firsts[c]]

\* DataFrame.to_csv(path, index=False): the header and the cells, without labels
to_csv(t) ==
    [columns |-> t.columns, rows |-> [i \in 1..Len(t.rows) |-> t.rows[i].cells]]

(***************************************************************************)
(* The run.                                                                *)
(***************************************************************************)
NoError == [kind |-> "none", at |-> "none"]
NoTable == [columns |-> <<>>, rows |-> <<>>]
NoRow == [idx |-> -1, cells |-> <<>>]

Start(file, present) ==
    /\ fileExists = present
    /\ rawFile = file
    /\ defined = {}
    /\ pc = "load"
    /\ ran = {}
    /\ error = NoError
    /\ out = {}
    /\ df = NoTable
    /\ latest_data = NoTable
    /\ rolling = <<>>
    /\ latest_date = NaT
    /\ total_cases_world = NaN
    /\ total_deaths_world = NaN
    /\ most_vaccinated = NoRow
    /\ highest_fatality = NoRow
    /\ first_cases = <<>>
    /\ days_reporting = <<>>
    /\ cleaned_csv = NoTable
    /\ snapshot_csv = NoTable

Init ==
    \/ Start(<<>>, FALSE)
    \/ IsFile(rawFile) /\ Start(rawFile, TRUE)
    \/ IsRollFile(rawFile) /\ Start(rawFile, TRUE)

\* the statement group `step` runs to its end and `next` follows
Goto(step, next) ==
    /\ pc = step
    /\ pc' = next
    /\ ran' = ran \cup {step}
    /\ error' = error

\* the statement group `step` raises an exception nothing catches
Raise(step, kind) ==
    /\ pc = step
    /\ pc' = "halted"
    /\ ran' = ran \cup {step}
    /\ error' = [kind |-> kind, at |-> step]

insights == <<latest_date, total_cases_world, total_deaths_world, most_vaccinated,
              highest_fatality, first_cases, days_reporting>>
exports == <<cleaned_csv, snapshot_csv>>
inputs == <<fileExists, rawFile>>

\* lines 31-35
Load ==
    /\ Goto("load", "shape_display")
    /\ IF fileExists
       THEN /\ df' = read_csv(rawFile)
            /\ defined' = defined \cup {"df"}
            /\ out' = out \cup {"Data loaded successfully!"}
       ELSE /\ out' = out \cup {"Error: Data file not found."}
            /\ UNCHANGED <<df, defined>>
    /\ UNCHANGED <<inputs, latest_data, rolling, insights, exports>>

\* lines 38-40
ShapeDisplay ==
    /\ IF "df" \in defined
       THEN Goto("shape_display", "column_info") /\ out' = out \cup {"Dataset shape"}
       ELSE Raise("shape_display", "NameError") /\ out' = out
    /\ UNCHANGED <<inputs, defined, df, latest_data, rolling, insights, exports>>

\* lines 44-48
ColumnInfo ==
    /\ Goto("column_info", "to_datetime")
    /\ out' = out \cup {"Columns in dataset"}
    /\ UNCHANGED <<inputs, defined, df, latest_data, rolling, insights, exports>>

\* line 55
ToDatetime ==
    /\ Goto("to_datetime", "filter")
    /\ df' = Assign(df, "date", [i \in 1..Len(df.rows) |->
                                   to_datetime(Column(df, "date")[i])])
    /\ UNCHANGED <<inputs, defined, out, latest_data, rolling, insights, exports>>

\* lines 58-59
Filter ==
    /\ Goto("filter", "project")
    /\ df' = Where(df, isin(Column(df, "location"), countries_to_include))
    /\ UNCHANGED <<inputs, defined, out, latest_data, rolling, insights, exports>>

\* lines 62-67: a requested column the table lacks is a KeyError
Project ==
    /\ IF Range(columns_to_keep) \subseteq Range(df.columns)
       THEN Goto("project", "fillna") /\ df' = Select(df, columns_to_keep)
       ELSE Raise("project", "KeyError") /\ df' = df
    /\ UNCHANGED <<inputs, defined, out, latest_data, rolling, insights, exports>>

\* the four columns of lines 70-73, filled one after the other
FillFour(t) ==
    LET a == Assign(t, "total_cases", fillna(Column(t, "total_cases")))
        b == Assign(a, "new_cases", fillna(Column(a, "new_cases")))
        c == Assign(b, "total_deaths", fillna(Column(b, "total_deaths")))
    IN Assign(c, "new_deaths", fillna(Column(c, "new_deaths")))

\* df = df.fillna(0): every numeric column filled
FillNa_every_column ==
    /\ Goto("fillna", "derive")
    /\ df' = [columns |-> df.columns,
              rows |-> [i \in 1..Len(df.rows) |->
                           [idx |-> df.rows[i].idx,
                            cells |-> [c \in DOMAIN df.rows[i].cells |->
                                          IF c \in NumericColumns /\ IsNaN(df.rows[i].cells[c])
                                          THEN Whole(0) ELSE df.rows[i].cells[c]]]]]
    /\ UNCHANGED <<inputs, defined, out, latest_data, rolling, insights, exports>>

\* lines 70-73
FillNa ==
    /\ Goto("fillna", "derive")
    /\ df' = FillFour(df)
    /\ UNCHANGED <<inputs, defined, out, latest_data, rolling, insights, exports>>

\* lines 76-77
Derive ==
    /\ Goto("derive", "sort")
    /\ df' = LET a == Assign(df, "case_fatality_rate", case_fatality_rate(df))
             IN Assign(a, "vaccination_rate", vaccination_rate(a))
    /\ UNCHANGED <<inputs, defined, out, latest_data, rolling, insights, exports>>

\* line 80
Sort ==
    /\ Goto("sort", "display_cleaned")
    /\ df' = sort_values(df)
    /\ UNCHANGED <<inputs, defined, out, latest_data, rolling, insights, exports>>

\* lines 83-92
DisplayCleaned ==
    /\ Goto("display_cleaned", "plot_total_cases")
    /\ out' = out \cup {"Cleaned data shape", "Summary statistics"}
    /\ UNCHANGED <<inputs, defined, df, latest_data, rolling, insights, exports>>

\* lines 96-108
PlotTotalCases ==
    /\ Goto("plot_total_cases", "plot_rolling")
    /\ UNCHANGED <<inputs, defined, out, df, latest_data, rolling, insights, exports>>

\* lines 112-126
PlotRolling ==
    /\ Goto("plot_rolling", "latest_data")
    /\ rolling' = [country \in UniqueLocations(df) |->
                      RollingMean(CountryData(df, country).rows, "new_cases")]
    /\ UNCHANGED <<inputs, defined, out, df, latest_data, insights, exports>>

\* lines 130-139
LatestData ==
    /\ Goto("latest_data", "plot_vaccination")
    /\ latest_data' = LatestRows(df)
    /\ UNCHANGED <<inputs, defined, out, df, rolling, insights, exports>>

\* lines 146-160
PlotVaccination ==
    /\ Goto("plot_vaccination", "latest_vaccines")
    /\ UNCHANGED <<inputs, defined, out, df, latest_data, rolling, insights, exports>>

\* lines 164-173
LatestVaccines ==
    /\ Goto("latest_vaccines", "px_line")
    /\ UNCHANGED <<inputs, defined, out, df, latest_data, rolling, insights, exports>>

\* lines 180-184
PxLine ==
    /\ Goto("px_line", "choropleth")
    /\ UNCHANGED <<inputs, defined, out, df, latest_data, rolling, insights, exports>>

\* lines 188-198: the table has no iso_code column any more; the exception is caught
Choropleth ==
    /\ Goto("choropleth", "insights_header")
    /\ out' = IF "iso_code" \in Range(latest_data.columns) THEN out
              ELSE out \cup {"Could not create choropleth map"}
    /\ UNCHANGED <<inputs, defined, df, latest_data, rolling, insights, exports>>

\* lines 205-211: NaT.strftime raises ValueError
InsightsHeader ==
    /\ pc = "insights_header"
    /\ latest_date' = DateMax(df)
    /\ total_cases_world' = Div(GroupMaxSum(df, "total_cases"), Whole(Million))
    /\ total_deaths_world' = Div(GroupMaxSum(df, "total_deaths"), Whole(Thousand))
    /\ IF DateMax(df) = NaT
       THEN Raise("insights_header", "ValueError") /\ out' = out
       ELSE Goto("insights_header", "most_vaccinated") /\ out' = out \cup {"Key Insights"}
    /\ UNCHANGED <<inputs, defined, df, latest_data, rolling, most_vaccinated,
                   highest_fatality, first_cases, days_reporting, exports>>

\* lines 214-215: idxmax of an all-NaN column raises ValueError, or returns NaN,
\* which .loc then fails to find (KeyError), depending on the pandas release
MostVaccinated ==
    /\ IF Valid(latest_data.rows, "vaccination_rate") = {}
       THEN /\ \E kind \in {"ValueError", "KeyError"} : Raise("most_vaccinated", kind)
            /\ UNCHANGED <<most_vaccinated, out>>
       ELSE /\ Goto("most_vaccinated", "highest_fatality")
            /\ most_vaccinated' = loc(latest_data.rows,
                                      idxmax(latest_data.rows, "vaccination_rate"))
            /\ out' = out \cup {"3. highest vaccination rate"}
    /\ UNCHANGED <<inputs, defined, df, latest_data, rolling, latest_date,
                   total_cases_world, total_deaths_world, highest_fatality,
                   first_cases, days_reporting, exports>>

\* lines 218-219
HighestFatality ==
    /\ IF Valid(latest_data.rows, "case_fatality_rate") = {}
       THEN /\ \E kind \in {"ValueError", "KeyError"} : Raise("highest_fatality", kind)
            /\ UNCHANGED <<highest_fatality, out>>
       ELSE /\ Goto("highest_fatality", "first_cases")
            /\ highest_fatality' = loc(latest_data.rows,
                                       idxmax(latest_data.rows, "case_fatality_rate"))
            /\ out' = out \cup {"4. highest case fatality rate"}
    /\ UNCHANGED <<inputs, defined, df, latest_data, rolling, latest_date,
                   total_cases_world, total_deaths_world, most_vaccinated,
                   first_cases, days_reporting, exports>>

\* lines 222-225
FirstCasesStep ==
    /\ Goto("first_cases", "export")
    /\ first_cases' = FirstCases(df)
    /\ days_reporting' = DaysSince(latest_date, FirstCases(df))
    /\ out' = IF FirstCases(df) = <<>> THEN out ELSE out \cup {"5. reporting cases for days"}
    /\ UNCHANGED <<inputs, defined, df, latest_data, rolling, latest_date,
                   total_cases_world, total_deaths_world, most_vaccinated,
                   highest_fatality, exports>>

\* lines 232-237
Export ==
    /\ Goto("export", "done")
    /\ cleaned_csv' = to_csv(df)
    /\ snapshot_csv' = to_csv(latest_data)
    /\ out' = out \cup {"Analysis complete!"}
    /\ UNCHANGED <<inputs, defined, df, latest_data, rolling, insights>>

Next ==
    \/ Load
    \/ ShapeDisplay
    \/ ColumnInfo
    \/ ToDatetime
    \/ Filter
    \/ Project
    \/ FillNa
    \/ Derive
    \/ Sort
    \/ DisplayCleaned
    \/ PlotTotalCases
    \/ PlotRolling
    \/ LatestData
    \/ PlotVaccination
    \/ LatestVaccines
    \/ PxLine
    \/ Choropleth
    \/ InsightsHeader
    \/ MostVaccinated
    \/ HighestFatality
    \/ FirstCasesStep
    \/ Export

Spec == Init /\ [][Next]_vars

(***************************************************************************)
(* Vocabulary of the properties.  They are stated against the input file,  *)
(* with the calendar counted day by day and sets in place of the table     *)
(* scans of the notebook.                                                  *)
(***************************************************************************)
Rows(t) == Range(t.rows)

\* the row of the file a table row was read from
Source(r) == rawFile[r.idx + 1]

DateLE(a, b) ==
    \/ a[1] < b[1]
    \/ a[1] = b[1] /\ a[2] < b[2]
    \/ a[1] = b[1] /\ a[2] = b[2] /\ a[3] <= b[3]

NextDay(a) ==
    IF a[3] < DaysInMonth(a[1], a[2]) THEN <<a[1], a[2], a[3] + 1>>
    ELSE IF a[2] < 12 THEN <<a[1], a[2] + 1, 1>>
    ELSE <<a[1] + 1, 1, 1>>

\* the whole days from one date of the calendar to a later one
RECURSIVE CalendarDays(_, _)
CalendarDays(from, to) == IF from = to THEN 0 ELSE 1 + CalendarDays(NextDay(from), to)

Whitelisted == {"United States", "India", "Brazil", "United Kingdom", "Germany", "Kenya",
                "South Africa"}

\* the rows of the file the notebook keeps, and their dates
Kept == {i \in 1..Len(rawFile) : rawFile[i].location \in Whitelisted}
LatestRaw == CHOOSE d \in {rawFile[i].date : i \in Kept} :
                 \A i \in Kept : DateLE(rawFile[i].date, d)

Positive(x) == x.t = "inf" \/ (x.t = "num" /\ x.n > 0)

\* C1: after cleaning and derivation, a row's case_fatality_rate is the undefined
\* marker (NaN) exactly when the row's total_cases in the file is 0 or unknown,
\* whatever its total_deaths; in every other row it is 100 * total_deaths / total_cases.
C1_FatalityRate ==
    "derive" \in ran =>
        \A r \in Rows(df) :
            LET cases == Source(r).total_cases
                deaths == r.cells.total_deaths
                rate == r.cells.case_fatality_rate
            IN IF IsNaN(cases) \/ IsZero(cases)
               THEN IsNaN(rate)
               ELSE /\ rate.t = "num"
                    /\ rate.n * cases.n * deaths.d = Hundred * deaths.n * cases.d * rate.d

\* the statement groups that read the table
TableSteps ==
    {"shape_display", "column_info", "to_datetime", "filter", "project", "fillna",
     "derive", "sort", "display_cleaned", "plot_total_cases", "plot_rolling",
     "latest_data", "plot_vaccination", "latest_vaccines", "px_line", "choropleth",
     "insights_header", "most_vaccinated", "highest_fatality", "first_cases", "export"}

\* C2: when the data file is absent the run reports the failure and halts; no
\* later statement group that reads the table is ever started.
C2_FailFast ==
    (~fileExists /\ "load" \in ran) =>
        /\ "Error: Data file not found." \in out
        /\ ran \cap TableSteps = {}

\* C3: the highest-vaccination-rate insight is the row of latest_data with the
\* greatest defined vaccination_rate; when every row's rate is undefined it ends
\* in the NoValidRow error and in no other exception.
C3_MostVaccinated ==
    "most_vaccinated" \in ran =>
        IF \A r \in Rows(latest_data) : IsNaN(r.cells.vaccination_rate)
        THEN error = [kind |-> "NoValidRow", at |-> "most_vaccinated"]
        ELSE /\ error.at # "most_vaccinated"
             /\ most_vaccinated \in Rows(latest_data)
             /\ ~IsNaN(most_vaccinated.cells.vaccination_rate)
             /\ \A r \in Rows(latest_data) :
                    ~Gt(r.cells.vaccination_rate, most_vaccinated.cells.vaccination_rate)

\* C4: the insights are isolated: when an extremal insight fails, the run still
\* computes the days_reporting insight and writes the exports.
C4_Isolated ==
    (pc \in {"done", "halted"} /\ error.at \in {"most_vaccinated", "highest_fatality"}) =>
        {"first_cases", "export"} \subseteq ran

\* the dates of the file on which a country reports more than zero cases
CaseDates(country) ==
    {rawFile[i].date : i \in {k \in Kept : /\ rawFile[k].location = country
                                           /\ Positive(rawFile[k].total_cases)}}

\* C5: for each country of the table, days_reporting is the number of whole days
\* from the earliest date of its rows with total_cases > 0 to latest_date, the
\* greatest date of all rows of all countries; a country with no such row gets
\* no value, and the others still get theirs.
C5_DaysReporting ==
    "first_cases" \in ran =>
        /\ DOMAIN days_reporting = {c \in Whitelisted : CaseDates(c) # {}}
        /\ \A c \in DOMAIN days_reporting :
               \E first \in CaseDates(c) :
                   /\ \A d \in CaseDates(c) : DateLE(first, d)
                   /\ days_reporting[c] = CalendarDays(first, LatestRaw)

C5_Witness ==
    /\ "first_cases" \in ran
    /\ \E c \in UniqueLocations(df) : c \notin DOMAIN days_reporting
    /\ \E c \in DOMAIN days_reporting : days_reporting[c] = 40

\* the rows of the working table dated the greatest date of the table
AtLatest == {r \in Rows(df) : \A s \in Rows(df) : s.cells.date <= r.cells.date}

\* what C6 states of the snapshot, but for the number of rows per country
SnapshotIsLatest ==
    /\ "latest_data" \in ran =>
           /\ Rows(latest_data) = AtLatest
           /\ Len(latest_data.rows) = Cardinality(AtLatest)
    /\ ("insights_header" \in ran /\ df.rows # <<>>) =>
           \A r \in Rows(latest_data) : r.cells.date = latest_date
    /\ "export" \in ran =>
           /\ Range(snapshot_csv.rows) = {r.cells : r \in AtLatest}
           /\ Len(snapshot_csv.rows) = Cardinality(AtLatest)

RowsOf(t, country) == {r \in Rows(t) : r.cells.location = country}

\* C6 as stated: latest_snapshot is exactly the rows of the working table dated
\* latest_date, and it holds one row for each country of the working table.
C6_Original ==
    /\ SnapshotIsLatest
    /\ "latest_data" \in ran =>
           \A c \in UniqueLocations(df) : Cardinality(RowsOf(latest_data, c)) = 1

\* C6, amended: latest_snapshot is exactly the rows of the working table dated
\* latest_date; it holds one row for each country that has a row of that date
\* and none for any other country.
C6_Snapshot ==
    /\ SnapshotIsLatest
    /\ "latest_data" \in ran =>
           \A c \in UniqueLocations(df) :
               Cardinality(RowsOf(latest_data, c)) =
                   IF \E i \in Kept : rawFile[i].location = c /\ rawFile[i].date = LatestRaw
                   THEN 1 ELSE 0

C6_Witness ==
    /\ pc = "done"
    /\ \E c \in UniqueLocations(df) : RowsOf(latest_data, c) = {}
    /\ \E c \in UniqueLocations(df) : RowsOf(latest_data, c) # {}

\* C7: the filter/project step puts out exactly the rows of the file whose
\* location is in the whitelist, none added and none dropped, each carrying
\* exactly the whitelisted columns, in the whitelist's order.
C7_FilterProject ==
    pc = "fillna" =>
        /\ df.columns = columns_to_keep
        /\ {r.idx + 1 : r \in Rows(df)} = Kept
        /\ Len(df.rows) = Cardinality(Kept)
        /\ \A r \in Rows(df) :
               /\ DOMAIN r.cells = Range(columns_to_keep)
               /\ r.cells.date = to_datetime(Source(r).date)
               /\ \A c \in DOMAIN r.cells \ {"date"} : r.cells[c] = Source(r)[c]

C7_Witness ==
    /\ pc = "fillna"
    /\ Kept # {}
    /\ Kept # 1..Len(rawFile)

\* C8: from the end of the cleaning step to the end of the run, no row of the
\* working table has an unknown total_cases, new_cases, total_deaths or
\* new_deaths: a value the file lacks is 0, and a value it holds is kept.
C8_NoUnknown ==
    "fillna" \in ran =>
        \A r \in Rows(df) \cup Rows(latest_data) :
            \A c \in {"total_cases", "new_cases", "total_deaths", "new_deaths"} :
                /\ ~IsNaN(r.cells[c])
                /\ r.cells[c] = IF IsNaN(Source(r)[c]) THEN Whole(0) ELSE Source(r)[c]

C8_Witness ==
    /\ pc = "done"
    /\ \E r \in Rows(latest_data) : IsNaN(Source(r).new_deaths)
    /\ \E r \in Rows(df) : IsNaN(Source(r).total_cases)

\* the rows of a country dated not after row r, and the Window latest of them
UpTo(r) == {s \in RowsOf(df, r.cells.location) : s.cells.date <= r.cells.date}
WindowOf(r) ==
    {s \in UpTo(r) : Cardinality({u \in UpTo(r) : u.cells.date > s.cells.date}) < Window}

RECURSIVE NewCases(_)
NewCases(S) ==
    IF S = {} THEN 0
    ELSE LET s == CHOOSE x \in S : TRUE IN s.cells.new_cases.n + NewCases(S \ {s})

C10_CleaningFrame ==
    /\ [][pc = "fillna" =>
            /\ df'.columns = df.columns
            /\ Len(df'.rows) = Len(df.rows)
            /\ \A i \in 1..Len(df.rows) :
                   /\ df'.rows[i].idx = df.rows[i].idx
                   /\ DOMAIN df'.rows[i].cells = DOMAIN df.rows[i].cells
                   /\ \A c \in DOMAIN df.rows[i].cells :
                          \/ /\ c \in {"total_cases", "new_cases", "total_deaths", "new_deaths"}
                             /\ IsNaN(df.rows[i].cells[c])
                          \/ df'.rows[i].cells[c] = df.rows[i].cells[c]]_vars
    /\ []("fillna" \in ran =>
            \A r \in Rows(df) :
                /\ \A c \in {"total_vaccinations", "people_vaccinated",
                             "people_fully_vaccinated", "population",
                             "population_density", "median_age", "gdp_per_capita"} :
                       IsNaN(Source(r)[c]) => IsNaN(r.cells[c])
                /\ ("derive" \in ran /\ (\/ IsNaN(Source(r).people_vaccinated)
                                         \/ IsNaN(Source(r).population)))
                       => IsNaN(r.cells.vaccination_rate))

C10_Witness ==
    /\ "derive" \in ran
    /\ \E r \in Rows(df) :
           /\ IsNaN(Source(r).population)
           /\ ~IsNaN(Source(r).people_vaccinated)
           /\ IsNaN(r.cells.vaccination_rate)
    /\ \E r \in Rows(df) : IsNaN(Source(r).total_cases) /\ IsZero(r.cells.total_cases)

====
